---- MODULE Spec2Model ----
(***************************************************************************)
(* A model of rgbgfx's driver (src/gfx/main.cpp): the error counter and    *)
(* its two tiers, option parsing, the gates of main() around the           *)
(* conversion stages, and the Palette slot array; and of the palette       *)
(* assigner and the deduper as the specification describes them.           *)
(*                                                                         *)
(* Six specifications share the module:                                    *)
(*   Spec         one run of main(): the options are scanned one by one,   *)
(*                the configuration is finished, the gate is passed and a  *)
(*                conversion stage runs;                                   *)
(*   SpecPalette  one Palette object under a sequence of addColor calls;   *)
(*   SpecNumber   one call of parseNumber, character by character;         *)
(*   SpecVectors  the option loop of main() over argv and the at-files;    *)
(*   SpecPacking  the palette assigner in auto mode over a tile sequence;  *)
(*   SpecDeduper  the deduper over a tile sequence.                        *)
(***************************************************************************)
EXTENDS Integers, Sequences, FiniteSets

VARIABLES
    \* ---- the Palette object and the option its accessors read
    colors,                 \* Palette::colors, slots 0 .. PalCapacity-1
    hasTransparentPixels,   \* options.hasTransparentPixels
    lastColor,              \* argument of the latest addColor call
    palStatus,              \* "ok" | "aborted" | "overrun" (see addColor)
    \* ---- the run of main()
    pc,                     \* position of main()
    nbErrors,               \* static uintmax_t nbErrors
    exitStatus,             \* -1 while running, else the process exit status
    stage,                  \* "none", or the conversion stage that was invoked
    stageErrors,            \* number of error() calls the stage has made
    lastDiag,               \* prefix of the latest diagnostic on stderr
    musl_optind,            \* number of arguments getopt has consumed, plus one
    ch,                     \* latest value returned by musl_getopt_long_only
    musl_optarg,            \* its argument, a sequence of characters
    options,                \* the fields of `options` that main.cpp sets
    localOptions,           \* the fields of `localOptions`
    sGiven,                 \* whether -s was seen (read by no code; for stating claims)
    \* ---- one call of parseNumber()
    pnPc,                   \* position in parseNumber
    pnInput,                \* the string at the call
    pnErrVal,               \* the parameter errVal
    pnString,               \* the parameter string, a reference the call advances
    pnBase,                 \* uint8_t base
    pnNumber,               \* uint16_t number
    pnWide,                 \* number * base + index before it is stored in 16 bits
    pnRet,                  \* the value returned, -1 before the return
    \* ---- the argument vectors of main()
    argv,                   \* main's argv: argv[0], the arguments, the terminator
    atFiles,                \* the arguments each at-file holds, by file name
    atFileStack,            \* std::vector<AtFileStackEntry> atFileStack
    curArgc,                \* int curArgc
    curArgv,                \* char **curArgv, as the vector it points to
    inputPath,              \* the path options.input holds, <<>> when it has none
    \* ---- the palette assigner in auto mode (spec 4.4)
    tileColors,             \* the ColorSet of each representative tile, in extraction order
    nbPalettes,             \* options.nbPalettes, the palette budget
    palettes,               \* the open palettes, in the order they were opened
    mapping,                \* per tile, the index in `palettes` assigned to it, 0 for none
    nextTile,               \* position of the pass in the processing order
    packStatus,             \* "ok" | "aborted" | "overrun", as palStatus
    written,                \* "pending", or whether the artifacts were written: "yes" | "no"
    \* ---- the deduper (spec 4.2)
    tileBytes,              \* the bytes of each tile, in extraction order
    occurrences             \* per tile taken so far: representative, dedup index, transform

palVars  == <<colors, hasTransparentPixels, lastColor, palStatus>>
mainVars == <<pc, nbErrors, exitStatus, stage, stageErrors, lastDiag, musl_optind, ch,
              musl_optarg, options, localOptions, sGiven>>
numVars  == <<pnPc, pnInput, pnErrVal, pnString, pnBase, pnNumber, pnWide, pnRet>>
\* The variables of the units that are checked on their own.
argVars  == <<argv, atFiles, atFileStack, curArgc, curArgv>>
packVars == <<tileColors, nbPalettes, palettes, mapping, nextTile, packStatus, written>>
dedupVars == <<tileBytes, occurrences>>
unitVars == <<numVars, argVars, inputPath, packVars, dedupVars>>
vars     == <<palVars, mainVars, unitVars>>

(***************************************************************************)
(* Bounds of the model.                                                    *)
(***************************************************************************)
\* Opaque colours offered to addColor: 0 .. NbOpaque-1 (one more than fits).
NbOpaque == 5
\* Options scanned in one run.
MaxArgs == 3
\* error() calls a conversion stage makes before it returns.
MaxStageErrors == 4
\* Stands for std::numeric_limits<uintmax_t>::max(), the value at which
\* nbErrors stops growing; scaled down so that a bounded run reaches it.
NB_ERRORS_MAX == 3

(***************************************************************************)
(* Program constants.                                                      *)
(***************************************************************************)
UINT16_MAX == 65535
\* Rgba::transparent, the packed value of the transparent colour.
Transparent == 32768
\* colors.size(): the slot array holds four colours.
PalCapacity == 4

Slots == 0 .. (PalCapacity - 1)
OpaqueColors == 0 .. (NbOpaque - 1)
ColorInputs == OpaqueColors \cup {Transparent}

BoolToInt(b) == IF b THEN 1 ELSE 0

(***************************************************************************)
(* Palette                                                                 *)
(***************************************************************************)
\* A freshly constructed Palette: every slot holds the empty sentinel.
EmptyPalette == [i \in Slots |-> UINT16_MAX]

\* Mutant of addColorLoop: the search for a free slot restarts at the front
\* and overwrites the first slot holding another colour.
RECURSIVE addColorLoop_overwrite(_, _, _)
addColorLoop_overwrite(cs, color, i) ==
    IF i >= PalCapacity THEN [colors |-> cs, inBounds |-> FALSE]
    ELSE IF cs[i] = color THEN [colors |-> cs, inBounds |-> TRUE]
    ELSE IF cs[i] # color /\ i = 0 /\ cs[i] # UINT16_MAX /\ cs[PalCapacity - 1] = UINT16_MAX
        THEN [colors |-> [cs EXCEPT ![i] = color], inBounds |-> TRUE]
    ELSE IF cs[i] = UINT16_MAX
        THEN [colors |-> [cs EXCEPT ![i] = color], inBounds |-> TRUE]
    ELSE addColorLoop_overwrite(cs, color, i + 1)

\* Mutant of addColorLoop: a colour already present is not recognised past
\* slot 0, so it is inserted a second time.
RECURSIVE addColorLoop_dup(_, _, _)
addColorLoop_dup(cs, color, i) ==
    IF i >= PalCapacity THEN [colors |-> cs, inBounds |-> FALSE]
    ELSE IF cs[i] = color /\ i = 0 THEN [colors |-> cs, inBounds |-> TRUE]
    ELSE IF cs[i] = UINT16_MAX
        THEN [colors |-> [cs EXCEPT ![i] = color], inBounds |-> TRUE]
    ELSE addColorLoop_dup(cs, color, i + 1)

\* Mutant of addColorLoop: the scan for an empty slot runs from the last
\* slot down, so the first colour lands in the last slot.
RECURSIVE addColorLoop_back(_, _, _)
addColorLoop_back(cs, color, i) ==
    IF i >= PalCapacity THEN [colors |-> cs, inBounds |-> FALSE]
    ELSE IF cs[PalCapacity - 1 - i] = color THEN [colors |-> cs, inBounds |-> TRUE]
    ELSE IF cs[PalCapacity - 1 - i] = UINT16_MAX
        THEN [colors |-> [cs EXCEPT ![PalCapacity - 1 - i] = color], inBounds |-> TRUE]
    ELSE addColorLoop_back(cs, color, i + 1)

\* The loop of Palette::addColor from index i on.  inBounds is FALSE when
\* the loop leaves the array: neither `color` nor an empty slot was found.
RECURSIVE addColorLoop(_, _, _)
addColorLoop(cs, color, i) ==
    IF i >= PalCapacity THEN [colors |-> cs, inBounds |-> FALSE]
    ELSE IF cs[i] = color THEN [colors |-> cs, inBounds |-> TRUE]
    ELSE IF cs[i] = UINT16_MAX
        THEN [colors |-> [cs EXCEPT ![i] = color], inBounds |-> TRUE]
    ELSE addColorLoop(cs, color, i + 1)

\* std::find(first, colors.end(), v) as an index; PalCapacity is colors.end().
RECURSIVE Find(_, _, _)
Find(cs, first, v) ==
    IF first >= PalCapacity THEN PalCapacity
    ELSE IF cs[first] = v THEN first
    ELSE Find(cs, first + 1, v)

\* Palette::begin(): skip the first slot if reserved for transparency.
Palette_begin(h) == 0 + BoolToInt(h)

\* Palette::end(): the first empty slot at or after begin().
Palette_end(cs, h) == Find(cs, Palette_begin(h), UINT16_MAX)

\* Mutant of Palette_indexOf: the offset of the reserved slot is forgotten.
Palette_indexOf_nooffset(cs, h, color) ==
    IF color = Transparent
        THEN 0
        ELSE (Find(cs, Palette_begin(h), color) - Palette_begin(h)) % 256

\* Palette::indexOf(), a uint8_t.
Palette_indexOf(cs, h, color) ==
    IF color = Transparent
        THEN 0
        ELSE (Find(cs, Palette_begin(h), color) - Palette_begin(h) + BoolToInt(h)) % 256

\* Mutant of Palette_size: the slots are counted from begin(), which leaves
\* the reserved slot out.
Palette_size_unreserved(cs, h) == Palette_end(cs, h) - Palette_begin(h)

\* Palette::size().
Palette_size(cs, h) == Palette_indexOf(cs, h, UINT16_MAX)

\* The colours visited by `for (uint16_t c : palette)`: begin() up to end().
Palette_iterate(cs, h) ==
    [k \in 1 .. (Palette_end(cs, h) - Palette_begin(h)) |-> cs[Palette_begin(h) + k - 1]]

(***************************************************************************)
(* Palette::addColor(color).  When the palette is full and the colour is   *)
(* new, the loop index reaches colors.size(): a build with assertions      *)
(* aborts there; a build with NDEBUG reads and writes past the array (the  *)
(* next object in memory), and the palette's own slots stay as they are.   *)
(***************************************************************************)
addColor(color) ==
    /\ palStatus # "aborted"
    /\ LET r == addColorLoop(colors, color, 0) IN
        /\ colors' = r.colors
        /\ IF r.inBounds
            THEN palStatus' = palStatus
            ELSE palStatus' \in {"aborted", "overrun"}
    /\ lastColor' = color
    /\ UNCHANGED hasTransparentPixels

(***************************************************************************)
(* Diagnostics                                                             *)
(***************************************************************************)
\* Mutant of error: the counter wraps to 0 instead of stopping at its maximum.
error_wrap(n) == [nbErrors |-> (n + 1) % (NB_ERRORS_MAX + 1), exits |-> FALSE,
                  status |-> -1, diag |-> "error"]

\* Mutant of error: the diagnostic is printed but not counted.
error_uncounted(n) == [nbErrors |-> n, exits |-> FALSE, status |-> -1, diag |-> "error"]

\* error(): print, count (unless the counter is at its maximum), return.
error(n) == [nbErrors |-> IF n # NB_ERRORS_MAX THEN n + 1 ELSE n, exits |-> FALSE,
             status |-> -1, diag |-> "error"]

\* giveUp(): print the summary and exit(1).
giveUp(n) == [nbErrors |-> n, exits |-> TRUE, status |-> 1]

\* Mutant of fatal: the call to giveUp() is missing, so fatal() returns.
fatal_returns(n) == [nbErrors |-> IF n # NB_ERRORS_MAX THEN n + 1 ELSE n, exits |-> FALSE,
                     status |-> -1, diag |-> "FATAL"]

\* fatal(): print, count (unless the counter is at its maximum), giveUp().
fatal(n) ==
    LET g == giveUp(IF n # NB_ERRORS_MAX THEN n + 1 ELSE n)
    IN  [nbErrors |-> g.nbErrors, exits |-> g.exits, status |-> g.status, diag |-> "FATAL"]

\* k calls of error() in a row.
RECURSIVE errorTimes(_, _)
errorTimes(n, k) == IF k = 0 THEN n ELSE errorTimes(error(n).nbErrors, k - 1)

(***************************************************************************)
(* Characters and strings.  A string is a sequence of one-character        *)
(* strings; Ord gives the character's code, and reading past the end       *)
(* gives the terminator 0.                                                 *)
(***************************************************************************)
Alphabet == <<"0", "1", "2", "3", "4", "5", "6", "7", "8", "9",
              "a", "b", "c", "d", "e", "f", "A", "B", "C", "D", "E", "F",
              "x", "X", "$", "%", ",", " ", "#", "z", "m", "M", "-", "@", "u">>
Codes    == <<48, 49, 50, 51, 52, 53, 54, 55, 56, 57,
              97, 98, 99, 100, 101, 102, 65, 66, 67, 68, 69, 70,
              120, 88, 36, 37, 44, 32, 35, 122, 109, 77, 45, 64, 117>>

Ord(c) == Codes[CHOOSE i \in 1 .. Len(Alphabet) : Alphabet[i] = c]

\* *string
Peek(s) == IF s = <<>> THEN 0 ELSE Ord(Head(s))
\* string[1]
Peek1(s) == IF Len(s) < 2 THEN 0 ELSE Ord(s[2])
\* string += n
Skip(s, n) == SubSeq(s, n + 1, Len(s))

\* tolower() on an unsigned char
tolower(c) == IF c >= 65 /\ c <= 90 THEN c + 32 ELSE c

\* The lambda charIndex of parseNumber: the digit's value, or 255.
charIndex(c, base) ==
    LET index == (c - 48) % 256 IN
    IF base = 2 /\ index >= 2 THEN 255
    ELSE IF index < 10 THEN index
    ELSE IF base # 16 THEN 255
    ELSE LET index2 == (tolower(c) - 97) % 256 IN
         IF index2 < 6 THEN index2 + 10 ELSE 255

\* The base prefix of parseNumber (lines 169-188) on a non-empty string.
numberBase(s) ==
    IF Peek(s) = 36 THEN [base |-> 16, string |-> Skip(s, 1)]
    ELSE IF Peek(s) = 37 THEN [base |-> 2, string |-> Skip(s, 1)]
    ELSE IF Peek(s) = 48 /\ Peek1(s) # 0 THEN
        IF Peek1(s) = 120 \/ Peek1(s) = 88 THEN [base |-> 16, string |-> Skip(s, 2)]
        ELSE IF Peek1(s) = 98 \/ Peek1(s) = 66 THEN [base |-> 2, string |-> Skip(s, 2)]
        ELSE [base |-> 10, string |-> s]
    ELSE [base |-> 10, string |-> s]

\* Mutant of tooLarge: the check compares with UINT16_MAX itself.
tooLarge_late(number, base) == number >= UINT16_MAX

\* Line 229: `number >= UINT16_MAX / base`.
tooLarge(number, base) == number >= UINT16_MAX \div base

\* The do-while loop of parseNumber on a uint16_t accumulator.
RECURSIVE parseDigits(_, _, _, _)
parseDigits(s, base, number, errVal) ==
    LET index == charIndex(Peek(s), base) IN
    IF index = 255 THEN [number |-> number, string |-> s, nbErr |-> 0]
    ELSE LET rest == Skip(s, 1)
             n2   == (((number * base) % 65536) + index) % 65536
         IN  IF tooLarge(n2, base)
                THEN [number |-> errVal, string |-> rest, nbErr |-> 1]
             ELSE IF Peek(rest) # 0
                THEN parseDigits(rest, base, n2, errVal)
             ELSE [number |-> n2, string |-> rest, nbErr |-> 0]

\* parseNumber(string, errPrefix, errVal): the value, the unparsed rest of
\* the string, and the number of error() calls (0 or 1).
parseNumber(s, errVal) ==
    IF Peek(s) = 0 THEN [number |-> errVal, string |-> s, nbErr |-> 1]
    ELSE LET b == numberBase(s) IN
         IF charIndex(Peek(b.string), b.base) = 255
            THEN [number |-> errVal, string |-> b.string, nbErr |-> 1]
            ELSE parseDigits(b.string, b.base, 0, errVal)

\* skipWhitespace(): arg += strspn(arg, " \t")
RECURSIVE skipWhitespace(_)
skipWhitespace(s) == IF Peek(s) = 32 \/ Peek(s) = 9 THEN skipWhitespace(Skip(s, 1)) ELSE s

\* Storing a uint16_t into a uint8_t field.
ToUint8(v) == v % 256

(***************************************************************************)
(* Options.  The defaults are the member initialisers of struct Options    *)
(* (gfx/main.hpp); the widths of the fields are those main() prints them   *)
(* with: PRIu8 for bitDepth, nbColorsPerPal and baseTileIDs, PRIu16 for    *)
(* maxNbTiles.                                                             *)
(***************************************************************************)
DefaultOptions ==
    [bitDepth |-> 2, nbColorsPerPal |-> 0, baseTileIDs |-> <<0, 0>>,
     maxNbTiles |-> <<UINT16_MAX, 0>>, allowMirroring |-> FALSE, allowDedup |-> FALSE,
     reversedWidth |-> 0, input |-> FALSE, output |-> FALSE, palettes |-> FALSE,
     attrmap |-> FALSE, palSpecType |-> "NO_SPEC"]

DefaultLocalOptions ==
    [externalPalSpec |-> FALSE, autoAttrmap |-> FALSE, autoPalettes |-> FALSE,
     groupOutputs |-> FALSE]

\* options.reverse()
Options_reverse(o) == o.reversedWidth # 0

\* Mutant of case_b: the parsed number is range-checked before it is stored
\* in the 8-bit field.
case_b_checked(o, arg) ==
    LET r0 == parseNumber(arg, 0)
        e0 == r0.nbErr + BoolToInt(r0.number >= 256)
    IN  IF Peek(r0.string) = 0
            THEN [options |-> [o EXCEPT !.baseTileIDs = <<ToUint8(r0.number), 0>>], nbErr |-> e0]
        ELSE LET a1 == skipWhitespace(r0.string) IN
            IF Peek(a1) # 44
                THEN [options |-> [o EXCEPT !.baseTileIDs[1] = ToUint8(r0.number)], nbErr |-> e0 + 1]
            ELSE LET r1 == parseNumber(skipWhitespace(Skip(a1, 1)), 0)
                 IN  [options |-> [o EXCEPT !.baseTileIDs =
                                       <<ToUint8(r0.number), ToUint8(r1.number)>>],
                      nbErr |-> e0 + r1.nbErr + BoolToInt(r1.number >= 256)
                                   + BoolToInt(Peek(r1.string) # 0)]

\* case 'b' of parseArgv: one or two comma-separated base tile IDs.
case_b(o, arg) ==
    LET r0  == parseNumber(arg, 0)
        id0 == ToUint8(r0.number)
        e0  == r0.nbErr + BoolToInt(id0 >= 256)
    IN  IF Peek(r0.string) = 0
            THEN [options |-> [o EXCEPT !.baseTileIDs = <<id0, 0>>], nbErr |-> e0]
        ELSE LET a1 == skipWhitespace(r0.string) IN
            IF Peek(a1) # 44
                THEN [options |-> [o EXCEPT !.baseTileIDs[1] = id0], nbErr |-> e0 + 1]
            ELSE LET r1  == parseNumber(skipWhitespace(Skip(a1, 1)), 0)
                     id1 == ToUint8(r1.number)
                 IN  [options |-> [o EXCEPT !.baseTileIDs = <<id0, id1>>],
                      nbErr |-> e0 + r1.nbErr + BoolToInt(id1 >= 256)
                                   + BoolToInt(Peek(r1.string) # 0)]

\* Mutant of case_d: the range check lets a depth of 3 through.
case_d_keep(o, arg) ==
    LET r  == parseNumber(arg, 2)
        bd == ToUint8(r.number)
    IN  IF Peek(r.string) # 0
            THEN [options |-> [o EXCEPT !.bitDepth = bd], nbErr |-> r.nbErr + 1]
        ELSE IF bd # 1 /\ bd # 2 /\ bd # 3
            THEN [options |-> [o EXCEPT !.bitDepth = 2], nbErr |-> r.nbErr + 1]
        ELSE [options |-> [o EXCEPT !.bitDepth = bd], nbErr |-> r.nbErr]

\* case 'd' of parseArgv: the bit depth.
case_d(o, arg) ==
    LET r  == parseNumber(arg, 2)
        bd == ToUint8(r.number)
    IN  IF Peek(r.string) # 0
            THEN [options |-> [o EXCEPT !.bitDepth = bd], nbErr |-> r.nbErr + 1]
        ELSE IF bd # 1 /\ bd # 2
            THEN [options |-> [o EXCEPT !.bitDepth = 2], nbErr |-> r.nbErr + 1]
        ELSE [options |-> [o EXCEPT !.bitDepth = bd], nbErr |-> r.nbErr]

\* case 'N' of parseArgv: one or two comma-separated bank capacities.
case_N(o, arg) ==
    LET r0 == parseNumber(arg, 256)
        n0 == r0.number
        e0 == r0.nbErr + BoolToInt(n0 > 256)
    IN  IF Peek(r0.string) = 0
            THEN [options |-> [o EXCEPT !.maxNbTiles = <<n0, 0>>], nbErr |-> e0]
        ELSE LET a1 == skipWhitespace(r0.string) IN
            IF Peek(a1) # 44
                THEN [options |-> [o EXCEPT !.maxNbTiles[1] = n0], nbErr |-> e0 + 1]
            ELSE LET r1 == parseNumber(skipWhitespace(Skip(a1, 1)), 256)
                     n1 == r1.number
                 IN  [options |-> [o EXCEPT !.maxNbTiles = <<n0, n1>>],
                      nbErr |-> e0 + r1.nbErr + BoolToInt(n1 > 256)
                                   + BoolToInt(Peek(r1.string) # 0)]

\* case 'r' of parseArgv: the reversed image stride.
case_r(o, arg) ==
    LET r == parseNumber(arg, UINT16_MAX)
    IN  [options |-> [o EXCEPT !.reversedWidth = r.number],
         nbErr |-> r.nbErr + BoolToInt(Peek(r.string) # 0) + BoolToInt(r.number = 0)]

\* case 's' of parseArgv: the number of colours per palette.
case_s(o, arg) ==
    LET r  == parseNumber(arg, 4)
        nb == ToUint8(r.number)
    IN  [options |-> [o EXCEPT !.nbColorsPerPal = nb],
         nbErr |-> r.nbErr + BoolToInt(Peek(r.string) # 0) + BoolToInt(nb > 4 \/ nb = 0)]

\* case 'u': allow deduplicating tiles.
case_u(o) == [o EXCEPT !.allowDedup = TRUE]

\* Mutant of case_m: a `break` ends case 'm', which no longer implies -u.
case_m_break(o) == [o EXCEPT !.allowMirroring = TRUE]

\* case 'm': allow mirroring tiles, then fall through to case 'u'.
case_m(o) == case_u([o EXCEPT !.allowMirroring = TRUE])

\* strcasecmp(musl_optarg, "embedded") == 0
IsEmbedded(arg) ==
    /\ Len(arg) = 8
    /\ [i \in 1 .. 8 |-> tolower(Ord(arg[i]))] = <<101, 109, 98, 101, 100, 100, 101, 100>>

(***************************************************************************)
(* Arguments offered to the options.                                       *)
(***************************************************************************)
Args_b == { <<"0">>, <<"2", "5", "5">>, <<"2", "5", "6">>, <<"3", "0", "0">>,
            <<"1", ",", "2">>, <<"1", ",", "2", "5", "7">>, <<"1", "x">> }
Args_d == { <<"1">>, <<"2">>, <<"3">>, <<"2", "5", "7">>, <<"1", "x">>, <<>> }
Args_N == { <<"2", "5", "6">>, <<"2", "5", "7">>, <<"1", "6", ",", " ", "8">>,
            <<"1", ",", "3", "0", "0">>, <<"$", "1", "0", "1">> }
Args_r == { <<"0">>, <<"2">>, <<"2", "z">> }
Args_s == { <<"0">>, <<"1">>, <<"3">>, <<"4">>, <<"5">>, <<"2", "5", "6">>,
            <<"2", "5", "8">>, <<"2", "x">> }
Args_c == { <<"#", "f", "f", "f">>, <<"e", "m", "b", "e", "d", "d", "e", "d">>,
            <<"E", "m", "b", "e", "d", "d", "e", "d">>, <<"z">> }
Args_positional == { <<"z">>, <<>> }
NoArg == <<>>

(***************************************************************************)
(* main(): the option loop.  Each action is one iteration of the loop of   *)
(* parseArgv: musl_getopt_long_only returns an option and the switch       *)
(* handles it.                                                             *)
(***************************************************************************)
\* musl_getopt_long_only() returns option c with argument arg.
GetOpt(c, arg) ==
    /\ pc = "parse"
    /\ musl_optind <= MaxArgs
    /\ ch' = c
    /\ musl_optarg' = arg
    /\ musl_optind' = musl_optind + 1

\* The effect of a handler that stores into `options` and calls error()
\* r.nbErr times.
Handled(r) ==
    /\ options' = r.options
    /\ nbErrors' = errorTimes(nbErrors, r.nbErr)
    /\ lastDiag' = IF r.nbErr > 0 THEN "error" ELSE lastDiag
    /\ UNCHANGED <<pc, exitStatus, stage, stageErrors, localOptions, palVars, unitVars>>

\* exit(status) from inside the option loop.
ExitInParse(status) ==
    /\ pc' = "exited"
    /\ exitStatus' = status
    /\ UNCHANGED <<nbErrors, stage, stageErrors, lastDiag, options, localOptions,
                   sGiven, palVars, unitVars>>

Opt_A ==
    /\ GetOpt("A", NoArg)
    /\ localOptions' = [localOptions EXCEPT !.autoAttrmap = TRUE]
    /\ UNCHANGED <<pc, nbErrors, exitStatus, stage, stageErrors, lastDiag, options,
                   sGiven, palVars, unitVars>>

Opt_a ==
    /\ GetOpt("a", <<"z">>)
    /\ localOptions' = [localOptions EXCEPT !.autoAttrmap = FALSE]
    /\ options' = [options EXCEPT !.attrmap = TRUE]
    /\ UNCHANGED <<pc, nbErrors, exitStatus, stage, stageErrors, lastDiag, sGiven, palVars, unitVars>>

Opt_b ==
    \E arg \in Args_b :
        /\ GetOpt("b", arg)
        /\ Handled(case_b(options, arg))
        /\ UNCHANGED sGiven

\* case 'c': an inline spec is parsed at once by parseInlinePalSpec (of
\* gfx/pal_spec.cpp), which reports a malformed spec with error(); an
\* external spec is deferred.
Opt_c ==
    \E arg \in Args_c, bad \in BOOLEAN :
        /\ GetOpt("c", arg)
        /\ IF Peek(arg) = 35
            THEN /\ options' = [options EXCEPT !.palSpecType = "EXPLICIT"]
                 /\ nbErrors' = IF bad THEN error(nbErrors).nbErrors ELSE nbErrors
                 /\ lastDiag' = IF bad THEN error(nbErrors).diag ELSE lastDiag
                 /\ UNCHANGED localOptions
           ELSE IF IsEmbedded(arg)
            THEN /\ options' = [options EXCEPT !.palSpecType = "EMBEDDED"]
                 /\ bad = FALSE
                 /\ UNCHANGED <<nbErrors, lastDiag, localOptions>>
           ELSE  /\ options' = [options EXCEPT !.palSpecType = "EXPLICIT"]
                 /\ localOptions' = [localOptions EXCEPT !.externalPalSpec = TRUE]
                 /\ bad = FALSE
                 /\ UNCHANGED <<nbErrors, lastDiag>>
        /\ UNCHANGED <<pc, exitStatus, stage, stageErrors, sGiven, palVars, unitVars>>

Opt_d ==
    \E arg \in Args_d :
        /\ GetOpt("d", arg)
        /\ Handled(case_d(options, arg))
        /\ UNCHANGED sGiven

Opt_m ==
    /\ GetOpt("m", NoArg)
    /\ options' = case_m(options)
    /\ UNCHANGED <<pc, nbErrors, exitStatus, stage, stageErrors, lastDiag, localOptions,
                   sGiven, palVars, unitVars>>

Opt_N ==
    \E arg \in Args_N :
        /\ GetOpt("N", arg)
        /\ Handled(case_N(options, arg))
        /\ UNCHANGED sGiven

Opt_O ==
    /\ GetOpt("O", NoArg)
    /\ localOptions' = [localOptions EXCEPT !.groupOutputs = TRUE]
    /\ UNCHANGED <<pc, nbErrors, exitStatus, stage, stageErrors, lastDiag, options,
                   sGiven, palVars, unitVars>>

Opt_o ==
    /\ GetOpt("o", <<"z">>)
    /\ options' = [options EXCEPT !.output = TRUE]
    /\ UNCHANGED <<pc, nbErrors, exitStatus, stage, stageErrors, lastDiag, localOptions,
                   sGiven, palVars, unitVars>>

Opt_P ==
    /\ GetOpt("P", NoArg)
    /\ localOptions' = [localOptions EXCEPT !.autoPalettes = TRUE]
    /\ UNCHANGED <<pc, nbErrors, exitStatus, stage, stageErrors, lastDiag, options,
                   sGiven, palVars, unitVars>>

Opt_p ==
    /\ GetOpt("p", <<"z">>)
    /\ localOptions' = [localOptions EXCEPT !.autoPalettes = FALSE]
    /\ options' = [options EXCEPT !.palettes = TRUE]
    /\ UNCHANGED <<pc, nbErrors, exitStatus, stage, stageErrors, lastDiag, sGiven, palVars, unitVars>>

Opt_r ==
    \E arg \in Args_r :
        /\ GetOpt("r", arg)
        /\ Handled(case_r(options, arg))
        /\ UNCHANGED sGiven

Opt_s ==
    \E arg \in Args_s :
        /\ GetOpt("s", arg)
        /\ Handled(case_s(options, arg))
        /\ sGiven' = TRUE

Opt_u ==
    /\ GetOpt("u", NoArg)
    /\ options' = case_u(options)
    /\ UNCHANGED <<pc, nbErrors, exitStatus, stage, stageErrors, lastDiag, localOptions,
                   sGiven, palVars, unitVars>>

\* case 'V': print the version and exit(0).
Opt_V ==
    /\ GetOpt("V", NoArg)
    /\ ExitInParse(0)

\* case 1, a positional argument: registerInput().
Opt_positional ==
    \E arg \in Args_positional :
        /\ GetOpt("1", arg)
        /\ IF options.input \/ Peek(arg) = 0
            THEN ExitInParse(1)
            ELSE /\ options' = [options EXCEPT !.input = TRUE]
                 /\ inputPath' = arg
                 /\ UNCHANGED <<pc, nbErrors, exitStatus, stage, stageErrors, lastDiag,
                                localOptions, sGiven, palVars, numVars, argVars, packVars, dedupVars>>

\* default: an option getopt does not know; exit(1).
Opt_unknown ==
    /\ GetOpt("?", NoArg)
    /\ ExitInParse(1)

\* getopt returns -1 and the at-file stack is empty: leave the loop.
EndOfArgs ==
    /\ pc = "parse"
    /\ pc' = "finish"
    /\ UNCHANGED <<nbErrors, exitStatus, stage, stageErrors, lastDiag, musl_optind, ch,
                   musl_optarg, options, localOptions, sGiven, palVars, unitVars>>

(***************************************************************************)
(* main(): after the option loop.                                          *)
(***************************************************************************)
\* Mutant of finishOptions: a palette size above 2^bitDepth goes unreported.
finishOptions_unchecked(o) ==
    IF o.nbColorsPerPal = 0
        THEN [options |-> [o EXCEPT !.nbColorsPerPal = ToUint8(2 ^ o.bitDepth)], nbErr |-> 0]
        ELSE [options |-> o, nbErr |-> 0]

\* Lines 654-659: the default palette size, and its check against the depth.
finishOptions(o) ==
    IF o.nbColorsPerPal = 0
        THEN [options |-> [o EXCEPT !.nbColorsPerPal = ToUint8(2 ^ o.bitDepth)], nbErr |-> 0]
    ELSE IF o.nbColorsPerPal > 2 ^ o.bitDepth
        THEN [options |-> o, nbErr |-> 1]
    ELSE [options |-> o, nbErr |-> 0]

FinishOptions ==
    /\ pc = "finish"
    /\ pc' = "autoPaths"
    /\ LET r == finishOptions(options) IN
        /\ options' = r.options
        /\ nbErrors' = errorTimes(nbErrors, r.nbErr)
        /\ lastDiag' = IF r.nbErr > 0 THEN "error" ELSE lastDiag
    /\ UNCHANGED <<exitStatus, stage, stageErrors, musl_optind, ch, musl_optarg,
                   localOptions, sGiven, palVars, unitVars>>

\* The lambda autoOutPath finds the image whose name the path is derived from.
autoImage == IF localOptions.groupOutputs THEN options.output ELSE options.input

\* Lines 661-677: derive the paths asked for by -A and -P; exit(1) if there
\* is no image name to derive them from.  (-T and -Q go the same way.)
AutoOutPaths ==
    /\ pc = "autoPaths"
    /\ IF (localOptions.autoAttrmap \/ localOptions.autoPalettes) /\ ~autoImage
        THEN /\ pc' = "exited"
             /\ exitStatus' = 1
             /\ UNCHANGED options
        ELSE /\ pc' = "palSpec"
             /\ options' = [options EXCEPT
                    !.attrmap = @ \/ localOptions.autoAttrmap,
                    !.palettes = @ \/ localOptions.autoPalettes]
             /\ UNCHANGED exitStatus
    /\ UNCHANGED <<nbErrors, stage, stageErrors, lastDiag, musl_optind, ch, musl_optarg,
                   localOptions, sGiven, palVars, unitVars>>

\* What a callee outside main.cpp does with the diagnostics: it returns
\* quietly, reports with error() and goes on, or stops with fatal().
\* `next` is where main() continues when the callee does not exit.
Report(r, next) ==
    /\ nbErrors' = r.nbErrors
    /\ lastDiag' = r.diag
    /\ IF r.exits
        THEN pc' = "exited" /\ exitStatus' = r.status
        ELSE pc' = next /\ UNCHANGED exitStatus

\* Lines 679-682: the deferred parseExternalPalSpec (of gfx/pal_spec.cpp).
ExternalPalSpec ==
    /\ pc = "palSpec"
    /\ IF localOptions.externalPalSpec
        THEN \E outcome \in {"ok", "error", "fatal"} :
                IF outcome = "ok"
                    THEN pc' = "gate" /\ UNCHANGED <<nbErrors, lastDiag, exitStatus>>
                ELSE IF outcome = "error" THEN Report(error(nbErrors), "gate")
                ELSE Report(fatal(nbErrors), "gate")
        ELSE pc' = "gate" /\ UNCHANGED <<nbErrors, lastDiag, exitStatus>>
    /\ UNCHANGED <<stage, stageErrors, musl_optind, ch, musl_optarg, options,
                   localOptions, sGiven, palVars, unitVars>>

\* Mutant of gate: the gate lets a run with one recorded error through.
gate_lax(n) == IF n > 1 THEN giveUp(n) ELSE [nbErrors |-> n, exits |-> FALSE, status |-> -1]

\* `if (nbErrors) giveUp();`
gate(n) == IF n # 0 THEN giveUp(n) ELSE [nbErrors |-> n, exits |-> FALSE, status |-> -1]

\* Lines 770-773: do not do anything if option parsing went wrong.
Gate ==
    /\ pc = "gate"
    /\ LET g == gate(nbErrors) IN
        IF g.exits
            THEN pc' = "exited" /\ exitStatus' = g.status
            ELSE pc' = "dispatch" /\ UNCHANGED exitStatus
    /\ UNCHANGED <<nbErrors, stage, stageErrors, lastDiag, musl_optind, ch, musl_optarg,
                   options, localOptions, sGiven, palVars, unitVars>>

\* Mutant of dispatch: the palettes-only branch forgets to test reverse().
dispatch_noreverse(o) ==
    IF o.input
        THEN IF Options_reverse(o) THEN "reverse" ELSE "process"
    ELSE IF o.palettes /\ o.palSpecType = "EXPLICIT"
        THEN "processPalettes"
    ELSE "none"

\* Lines 775-788: which stage main() invokes, "none" for the final exit(1).
dispatch(o) ==
    IF o.input
        THEN IF Options_reverse(o) THEN "reverse" ELSE "process"
    ELSE IF o.palettes /\ o.palSpecType = "EXPLICIT" /\ ~Options_reverse(o)
        THEN "processPalettes"
    ELSE "none"

Dispatch ==
    /\ pc = "dispatch"
    /\ IF dispatch(options) = "none"
        THEN /\ pc' = "exited"
             /\ exitStatus' = 1
             /\ UNCHANGED stage
        ELSE /\ pc' = "stage"
             /\ stage' = dispatch(options)
             /\ UNCHANGED exitStatus
    /\ UNCHANGED <<nbErrors, stageErrors, lastDiag, musl_optind, ch, musl_optarg,
                   options, localOptions, sGiven, palVars, unitVars>>

\* The running stage (process, reverse or processPalettes) calls error().
StageError ==
    /\ pc = "stage"
    /\ stageErrors < MaxStageErrors
    /\ stageErrors' = stageErrors + 1
    /\ Report(error(nbErrors), "stage")
    /\ UNCHANGED <<stage, musl_optind, ch, musl_optarg, options, localOptions, sGiven,
                   palVars, unitVars>>

\* The running stage calls fatal().
StageFatal ==
    /\ pc = "stage"
    /\ Report(fatal(nbErrors), "stage")
    /\ UNCHANGED <<stage, stageErrors, musl_optind, ch, musl_optarg, options,
                   localOptions, sGiven, palVars, unitVars>>

\* The stage returns to main().
StageReturn ==
    /\ pc = "stage"
    /\ pc' = "finalGate"
    /\ UNCHANGED <<nbErrors, exitStatus, stage, stageErrors, lastDiag, musl_optind, ch,
                   musl_optarg, options, localOptions, sGiven, palVars, unitVars>>

\* Lines 790-793: giveUp() if the stage recorded errors, else return 0.
FinalGate ==
    /\ pc = "finalGate"
    /\ pc' = "exited"
    /\ exitStatus' = IF gate(nbErrors).exits THEN gate(nbErrors).status ELSE 0
    /\ UNCHANGED <<nbErrors, stage, stageErrors, lastDiag, musl_optind, ch, musl_optarg,
                   options, localOptions, sGiven, palVars, unitVars>>

(***************************************************************************)
(* Specifications                                                          *)
(***************************************************************************)
InitMain ==
    /\ pc = "parse"
    /\ nbErrors = 0
    /\ exitStatus = -1
    /\ stage = "none"
    /\ stageErrors = 0
    /\ lastDiag = "none"
    /\ musl_optind = 1
    /\ ch = "none"
    /\ musl_optarg = <<>>
    /\ options = DefaultOptions
    /\ localOptions = DefaultLocalOptions
    /\ sGiven = FALSE

InitPal ==
    /\ colors = EmptyPalette
    /\ lastColor = UINT16_MAX
    /\ palStatus = "ok"

\* No call of parseNumber is under way.
InitNum ==
    /\ pnPc = "idle"
    /\ pnInput = <<>>
    /\ pnErrVal = UINT16_MAX
    /\ pnString = <<>>
    /\ pnBase = 10
    /\ pnNumber = 0
    /\ pnWide = 0
    /\ pnRet = -1

\* The argument vectors are not looked at: Spec draws each argument when
\* getopt reaches it, and no at-file is open.
InitArgs ==
    /\ argv = <<>>
    /\ atFiles = <<>>
    /\ atFileStack = <<>>
    /\ curArgc = 0
    /\ curArgv = <<>>

\* The assigner has nothing to do.
InitPack ==
    /\ tileColors = <<>>
    /\ nbPalettes = 1
    /\ palettes = <<>>
    /\ mapping = <<>>
    /\ nextTile = 1
    /\ packStatus = "ok"
    /\ written = "pending"

\* The deduper has nothing to do.
InitDedup ==
    /\ tileBytes = <<>>
    /\ occurrences = <<>>

InitUnits == InitNum /\ InitArgs /\ inputPath = <<>> /\ InitPack /\ InitDedup

Init ==
    /\ InitMain
    /\ InitPal
    /\ InitUnits
    /\ hasTransparentPixels = FALSE

Next ==
    \/ Opt_A \/ Opt_a \/ Opt_b \/ Opt_c \/ Opt_d \/ Opt_m \/ Opt_N \/ Opt_O \/ Opt_o
    \/ Opt_P \/ Opt_p \/ Opt_r \/ Opt_s \/ Opt_u \/ Opt_V \/ Opt_positional
    \/ Opt_unknown \/ EndOfArgs
    \/ FinishOptions \/ AutoOutPaths \/ ExternalPalSpec \/ Gate \/ Dispatch
    \/ StageError \/ StageFatal \/ StageReturn \/ FinalGate

Spec == Init /\ [][Next]_vars

\* One palette; whether slot 0 is reserved is fixed before its first use.
InitPalette ==
    /\ InitMain
    /\ InitPal
    /\ InitUnits
    /\ hasTransparentPixels \in BOOLEAN

AddColor ==
    /\ \E color \in ColorInputs : addColor(color)
    /\ UNCHANGED <<mainVars, unitVars>>

NextPalette == AddColor

SpecPalette == InitPalette /\ [][NextPalette]_vars

(***************************************************************************)
(* One call of parseNumber(), statement by statement.  The strings offered *)
(* are all short strings over NumChars and the strings around the largest  *)
(* numbers each base accepts.                                              *)
(***************************************************************************)
\* Longest string over NumChars that is offered.
MaxLen == 3

NumChars == {"0", "1", "2", "9", "f", "F", "x", "b", "$", "%", "z", ","}

ShortInputs == UNION {[1 .. k -> NumChars] : k \in 0 .. MaxLen}

Repeat(c, n) == [i \in 1 .. n |-> c]

BoundaryInputs ==
    { <<"6", "5", "5", "2">>, <<"6", "5", "5", "3">>, <<"6", "5", "5", "2", "9">>,
      <<"6", "5", "5", "3", "5">>, <<"6", "5", "5", "3", "6">>, <<"9", "9", "9", "9", "9">>,
      <<"0", "6", "5", "5", "2", "z">>,
      <<"$", "f", "f", "e">>, <<"$", "f", "f", "f">>, <<"$", "F", "F", "F", "F">>,
      <<"0", "x", "f", "f", "e", "0">>, <<"0", "X", "1", "0", "0", "0", "0">>,
      <<"0", "x", "f", "f", "e", ",">> }
    \cup { <<"%">> \o Repeat("1", n) : n \in 14 .. 17 }
    \cup { <<"0", "b", "1">> \o Repeat("0", n) : n \in 14 .. 16 }
    \cup { <<"0", "B">> \o Repeat("1", 14) \o <<"2">> }

NumberInputs == ShortInputs \cup BoundaryInputs

\* `return v;` from parseNumber, after nbErr calls of error().
PN_Return(v, nbErr) ==
    /\ pnPc' = "returned"
    /\ pnRet' = v
    /\ nbErrors' = errorTimes(nbErrors, nbErr)
    /\ lastDiag' = IF nbErr > 0 THEN "error" ELSE lastDiag

\* Lines 169-188: the empty string is an error; else the base prefix is read.
PN_Prefix ==
    /\ pnPc = "call"
    /\ IF Peek(pnString) = 0
        THEN /\ PN_Return(pnErrVal, 1)
             /\ UNCHANGED <<pnString, pnBase>>
        ELSE /\ pnBase' = numberBase(pnString).base
             /\ pnString' = numberBase(pnString).string
             /\ pnPc' = "first"
             /\ UNCHANGED <<pnRet, nbErrors, lastDiag>>
    /\ UNCHANGED <<pnInput, pnErrVal, pnNumber, pnWide>>
    /\ UNCHANGED <<pc, exitStatus, stage, stageErrors, musl_optind, ch, musl_optarg,
                   options, localOptions, sGiven, palVars, argVars, inputPath, packVars, dedupVars>>

\* Lines 212-217: there must be a digit; then `uint16_t number = 0`.
PN_FirstDigit ==
    /\ pnPc = "first"
    /\ IF charIndex(Peek(pnString), pnBase) = 255
        THEN /\ PN_Return(pnErrVal, 1)
             /\ UNCHANGED pnNumber
        ELSE /\ pnNumber' = 0
             /\ pnPc' = "loop"
             /\ UNCHANGED <<pnRet, nbErrors, lastDiag>>
    /\ UNCHANGED <<pnInput, pnErrVal, pnString, pnBase, pnWide>>
    /\ UNCHANGED <<pc, exitStatus, stage, stageErrors, musl_optind, ch, musl_optarg,
                   options, localOptions, sGiven, palVars, argVars, inputPath, packVars, dedupVars>>

\* Lines 218-235: one iteration of the do-while loop, and the return after it.
PN_Loop ==
    /\ pnPc = "loop"
    /\ LET index == charIndex(Peek(pnString), pnBase)
           wide  == pnNumber * pnBase + index
           n2    == (((pnNumber * pnBase) % 65536) + index) % 65536
       IN  IF index = 255
            THEN /\ PN_Return(pnNumber, 0)
                 /\ UNCHANGED <<pnString, pnNumber, pnWide>>
            ELSE /\ pnString' = Skip(pnString, 1)
                 /\ pnNumber' = n2
                 /\ pnWide' = wide
                 /\ IF tooLarge(n2, pnBase)
                        THEN PN_Return(pnErrVal, 1)
                    ELSE IF Peek(Skip(pnString, 1)) # 0
                        THEN /\ pnPc' = "loop"
                             /\ UNCHANGED <<pnRet, nbErrors, lastDiag>>
                    ELSE PN_Return(n2, 0)
    /\ UNCHANGED <<pnInput, pnErrVal, pnBase>>
    /\ UNCHANGED <<pc, exitStatus, stage, stageErrors, musl_optind, ch, musl_optarg,
                   options, localOptions, sGiven, palVars, argVars, inputPath, packVars, dedupVars>>

\* A caller passes a string and an errVal to parseNumber.
InitNumber ==
    /\ InitMain
    /\ InitPal
    /\ hasTransparentPixels = FALSE
    /\ InitArgs
    /\ InitPack
    /\ InitDedup
    /\ inputPath = <<>>
    /\ pnPc = "call"
    /\ pnInput \in NumberInputs
    /\ pnString = pnInput
    /\ pnErrVal \in {0, UINT16_MAX}
    /\ pnBase = 10
    /\ pnNumber = 0
    /\ pnWide = 0
    /\ pnRet = -1

NextNumber == PN_Prefix \/ PN_FirstDigit \/ PN_Loop

SpecNumber == InitNumber /\ [][NextNumber]_vars

(***************************************************************************)
(* main(): the loop over the argument vectors (lines 605-652).  A vector   *)
(* is a sequence whose element i+1 is the C element i; it starts with      *)
(* argv[0] and ends with the null terminator.  The arguments offered are   *)
(* -m, -u, --, a path, and a reference to an at-file; at-file "a" may      *)
(* refer to at-file "b".                                                   *)
(***************************************************************************)
\* Arguments in a vector, argv[0] and the terminator not counted.
MaxArgc == 2

\* The null pointer that ends a vector.
NULL == <<"NULL">>
\* What an out-of-bounds read of a vector may find: some string.
Garbage == <<"#">>
\* The status of a process a signal killed (128 + SIGSEGV).
Crashed == 139

ProgName == <<"rgbgfx">>
DashDash == <<"-", "-">>
ArgsOfMain == { <<"-", "m">>, <<"z">>, <<"@", "a">>, DashDash }
ArgsOfA == { <<"-", "u">>, <<"x">>, <<"@", "b">>, DashDash }
ArgsOfB == { <<"-", "m">>, <<"M">>, DashDash }
FileNames == { <<"a">>, <<"b">> }

VectorsOver(args) == UNION {[1 .. k -> args] : k \in 0 .. MaxArgc}

\* argv[i]
At(v, i) == v[i + 1]

\* musl_getopt_long_only() with the option string of line 103, whose leading
\* `-` makes it return 1 for an argument that is not an option: it stops at
\* the end of the vector and at a null pointer, and steps over `--`.
musl_getopt_long_only(argc_, argv_, optind) ==
    IF optind >= argc_ \/ At(argv_, optind) = NULL
        THEN [ch |-> "-1", optarg |-> NoArg, optind |-> optind]
    ELSE LET a == At(argv_, optind) IN
        IF Peek(a) # 45 THEN [ch |-> "1", optarg |-> a, optind |-> optind + 1]
        ELSE IF Len(a) = 1 THEN [ch |-> "-1", optarg |-> NoArg, optind |-> optind]
        ELSE IF a = DashDash THEN [ch |-> "-1", optarg |-> NoArg, optind |-> optind + 1]
        ELSE [ch |-> a[2], optarg |-> NoArg, optind |-> optind + 1]

\* registerInput(arg) on st = [input, path, exit]: exit(1) if there is an
\* input already or the path is empty, else the path is stored.
registerInput(st, arg) ==
    IF st.input THEN [st EXCEPT !.exit = 1]
    ELSE IF Peek(arg) = 0 THEN [st EXCEPT !.exit = 1]
    ELSE [st EXCEPT !.input = TRUE, !.path = arg]

\* Lines 631-633: `for (i = musl_optind; i < curArgc; ++i) registerInput(argv[i])`,
\* which reads main's argv.  Reading its terminator passes a null pointer to
\* registerInput, which exits on an input already stored and else reads
\* through the pointer; reading past the terminator is undefined and finds
\* what `ub` says.
RECURSIVE leftovers(_, _, _, _)
leftovers(i, n, st, ub) ==
    IF i >= n \/ st.exit # -1 THEN st
    ELSE LET after ==
                IF i + 1 > Len(argv)
                    THEN IF ub = "crash" THEN [st EXCEPT !.exit = Crashed]
                         ELSE registerInput(st, Garbage)
                ELSE IF At(argv, i) = NULL
                    THEN IF st.input THEN [st EXCEPT !.exit = 1]
                         ELSE [st EXCEPT !.exit = Crashed]
                ELSE registerInput(st, At(argv, i))
         IN  leftovers(i + 1, n, after, ub)

\* The loop of lines 631-633 reads past the terminator of main's argv.
ReadsOutOfBounds(from, n) == \E i \in from .. (n - 1) : i + 1 > Len(argv)

\* Lines 644-651: the vector scanned after a pop that leaves `stack`.
vectorAfterPop(stack) ==
    IF stack = <<>>
        THEN [curArgc |-> Len(argv) - 1, curArgv |-> argv]
        ELSE LET vec == stack[Len(stack)].argv
             IN  [curArgc |-> Len(vec), curArgv |-> vec]

\* Lines 611-624: the stack entry made for at-file `name`.
stackEntry(parentInd, name) ==
    [parentInd |-> parentInd, argv |-> <<name>> \o atFiles[name] \o <<NULL>>]

\* getopt returns an option of the vector being scanned.
Scan(g) ==
    /\ pc = "parse"
    /\ g = musl_getopt_long_only(curArgc, curArgv, musl_optind)
    /\ ch' = g.ch
    /\ musl_optarg' = g.optarg

Arg_m ==
    \E g \in {musl_getopt_long_only(curArgc, curArgv, musl_optind)} :
        /\ Scan(g)
        /\ g.ch = "m"
        /\ musl_optind' = g.optind
        /\ options' = case_m(options)
        /\ UNCHANGED <<pc, nbErrors, exitStatus, stage, stageErrors, lastDiag, localOptions,
                       sGiven, palVars, numVars, argVars, inputPath, packVars, dedupVars>>

Arg_u ==
    \E g \in {musl_getopt_long_only(curArgc, curArgv, musl_optind)} :
        /\ Scan(g)
        /\ g.ch = "u"
        /\ musl_optind' = g.optind
        /\ options' = case_u(options)
        /\ UNCHANGED <<pc, nbErrors, exitStatus, stage, stageErrors, lastDiag, localOptions,
                       sGiven, palVars, numVars, argVars, inputPath, packVars, dedupVars>>

\* case 1 with a path: registerInput(musl_optarg).
Arg_positional ==
    \E g \in {musl_getopt_long_only(curArgc, curArgv, musl_optind)} :
        /\ Scan(g)
        /\ g.ch = "1" /\ Peek(g.optarg) # 64
        /\ musl_optind' = g.optind
        /\ LET st == registerInput([input |-> options.input, path |-> inputPath,
                                    exit |-> -1], g.optarg)
           IN  /\ options' = [options EXCEPT !.input = st.input]
               /\ inputPath' = st.path
               /\ IF st.exit # -1
                    THEN pc' = "exited" /\ exitStatus' = st.exit
                    ELSE UNCHANGED <<pc, exitStatus>>
        /\ UNCHANGED <<nbErrors, stage, stageErrors, lastDiag, localOptions, sGiven,
                       palVars, numVars, argVars, packVars, dedupVars>>

\* case 1 with `@name`: parseArgv returns the name and main() (lines
\* 609-626) reads the at-file, pushes its vector and scans it from 1;
\* readAtFile calls fatal() when the file cannot be read.
Arg_atFile ==
    \E g \in {musl_getopt_long_only(curArgc, curArgv, musl_optind)}, readable \in BOOLEAN :
        /\ Scan(g)
        /\ g.ch = "1" /\ Peek(g.optarg) = 64
        /\ LET name  == Skip(g.optarg, 1)
               entry == stackEntry(g.optind, name)
           IN  IF readable /\ name \in DOMAIN atFiles
                THEN /\ atFileStack' = Append(atFileStack, entry)
                     /\ curArgc' = Len(entry.argv) - 1
                     /\ curArgv' = entry.argv
                     /\ musl_optind' = 1
                     /\ UNCHANGED <<pc, exitStatus, nbErrors, lastDiag>>
                ELSE /\ Report(fatal(nbErrors), "parse")
                     /\ musl_optind' = g.optind
                     /\ UNCHANGED <<atFileStack, curArgc, curArgv>>
        /\ UNCHANGED <<stage, stageErrors, options, localOptions, sGiven, palVars, numVars,
                       argv, atFiles, inputPath, packVars, dedupVars>>

\* getopt returns -1 and parseArgv returns NULL: lines 628-651, the
\* arguments left over after `--`, then the pop of the at-file stack or,
\* when it is empty, the end of the loop.
ArgvDone ==
    \E g \in {musl_getopt_long_only(curArgc, curArgv, musl_optind)}, ub \in {"crash", "garbage"} :
        /\ Scan(g)
        /\ g.ch = "-1"
        /\ ub = "garbage" => ReadsOutOfBounds(g.optind, curArgc)
        /\ LET st == leftovers(g.optind, curArgc, [input |-> options.input,
                                path |-> inputPath, exit |-> -1], ub)
               popped == SubSeq(atFileStack, 1, Len(atFileStack) - 1)
           IN  /\ options' = [options EXCEPT !.input = st.input]
               /\ inputPath' = st.path
               /\ IF st.exit # -1
                    THEN /\ pc' = "exited"
                         /\ exitStatus' = st.exit
                         /\ musl_optind' = g.optind
                         /\ UNCHANGED <<atFileStack, curArgc, curArgv>>
                  ELSE IF atFileStack = <<>>
                    THEN /\ pc' = "finish"
                         /\ musl_optind' = g.optind
                         /\ UNCHANGED <<exitStatus, atFileStack, curArgc, curArgv>>
                  ELSE   /\ musl_optind' = atFileStack[Len(atFileStack)].parentInd
                         /\ atFileStack' = popped
                         /\ curArgc' = vectorAfterPop(popped).curArgc
                         /\ curArgv' = vectorAfterPop(popped).curArgv
                         /\ UNCHANGED <<pc, exitStatus>>
        /\ UNCHANGED <<nbErrors, stage, stageErrors, lastDiag, localOptions, sGiven,
                       palVars, numVars, argv, atFiles, packVars, dedupVars>>

\* main() is entered with an argv, and the at-files hold their arguments.
InitVectors ==
    /\ InitMain
    /\ InitPal
    /\ InitNum
    /\ InitPack
    /\ InitDedup
    /\ hasTransparentPixels = FALSE
    /\ inputPath = <<>>
    /\ \E args \in VectorsOver(ArgsOfMain) : argv = <<ProgName>> \o args \o <<NULL>>
    /\ \E fa \in VectorsOver(ArgsOfA), fb \in VectorsOver(ArgsOfB) :
            atFiles = [name \in FileNames |-> IF name = <<"a">> THEN fa ELSE fb]
    /\ atFileStack = <<>>
    /\ curArgc = Len(argv) - 1
    /\ curArgv = argv

NextVectors == Arg_m \/ Arg_u \/ Arg_positional \/ Arg_atFile \/ ArgvDone

SpecVectors == InitVectors /\ [][NextVectors]_vars

(***************************************************************************)
(* The palette assigner in auto mode, from spec 4.4: its source             *)
(* (gfx/pal_packing.cpp, gfx/process.cpp) is not part of src/.  The         *)
(* palettes are Palette objects, filled by Palette::addColor.               *)
(***************************************************************************)
\* Colours the tiles draw from: 0 .. NbTileColors-1.
NbTileColors == 4
\* Representative tiles of the image.
MaxTiles == 3
\* Largest palette budget offered.
MaxPalettes == 2
\* The status of a process that abort() ended (128 + SIGABRT).
Aborted == 134

TileColorValues == 0 .. (NbTileColors - 1)

\* The ColorSets a tile may have: spec 3, `size <= colors-per-palette`.
ColorSets(cap) == {cs \in SUBSET TileColorValues : Cardinality(cs) \in 1 .. cap}

TileSequences(cap) == UNION {[1 .. n -> ColorSets(cap)] : n \in 0 .. MaxTiles}

\* Step 1: tile i is processed before tile j.
processedBefore(tiles, i, j) ==
    \/ Cardinality(tiles[i]) > Cardinality(tiles[j])
    \/ Cardinality(tiles[i]) = Cardinality(tiles[j]) /\ i < j

\* Step 1: the processing order, as the sequence of tile numbers.
processingOrder(tiles) ==
    [k \in 1 .. Len(tiles) |->
        CHOOSE i \in 1 .. Len(tiles) :
            Cardinality({j \in 1 .. Len(tiles) : processedBefore(tiles, j, i)}) = k - 1]

\* The occupied colours of a palette: its slots that are not empty.
occupiedColors(pal) == {pal[i] : i \in Slots} \ {UINT16_MAX}

\* Step 2: the colours of the set the palette lacks.
newColors(pal, cs) == cs \ occupiedColors(pal)

\* Step 2: adding the new colours does not exceed the capacity.
accommodates(pal, cs, cap) ==
    Cardinality(occupiedColors(pal)) + Cardinality(newColors(pal, cs)) <= cap

\* Step 3: the open palette requiring the fewest new colours, ties broken by
\* the lowest index; 0 when no open palette accommodates the set.
bestPalette(pals, cs, cap) ==
    LET fit == {k \in 1 .. Len(pals) : accommodates(pals[k], cs, cap)} IN
    IF fit = {} THEN 0
    ELSE CHOOSE k \in fit :
            \A j \in fit :
                \/ Cardinality(newColors(pals[k], cs)) < Cardinality(newColors(pals[j], cs))
                \/ /\ Cardinality(newColors(pals[k], cs)) = Cardinality(newColors(pals[j], cs))
                   /\ k <= j

\* addColor() for each colour of a set, lowest value first.  inBounds is
\* FALSE when one of the calls left the array.
RECURSIVE addColors(_, _)
addColors(pal, cs) ==
    IF cs = {} THEN [colors |-> pal, inBounds |-> TRUE]
    ELSE LET c == CHOOSE x \in cs : \A y \in cs : x <= y
             r == addColorLoop(pal, c, 0)
             rest == addColors(r.colors, cs \ {c})
         IN  [colors |-> rest.colors, inBounds |-> r.inBounds /\ rest.inBounds]

\* Step 4: a new palette holds the reserved transparent slot, if applicable,
\* and exactly the colours of the set.
newPalette(cs, h) ==
    addColors(IF h THEN [EmptyPalette EXCEPT ![0] = Transparent] ELSE EmptyPalette, cs)

\* Step 4: the palette-count budget is not exhausted.
budgetLeft(pals, budget) == Len(pals) < budget

\* Steps 2-5 for the next tile of the processing order.
PackTile ==
    /\ pc = "stage" /\ stage = "process"
    /\ nextTile <= Len(tileColors)
    /\ LET t    == processingOrder(tileColors)[nextTile]
           cs   == tileColors[t]
           cap  == options.nbColorsPerPal
           best == bestPalette(palettes, cs, cap)
           grown == addColors(palettes[best], cs)
           fresh == newPalette(cs, hasTransparentPixels)
       IN  IF best # 0
            THEN /\ palettes' = [palettes EXCEPT ![best] = grown.colors]
                 /\ mapping' = [mapping EXCEPT ![t] = best]
                 /\ UNCHANGED <<nbErrors, lastDiag>>
                 /\ IF grown.inBounds
                        THEN UNCHANGED packStatus
                        ELSE packStatus' \in {"aborted", "overrun"}
           ELSE IF budgetLeft(palettes, nbPalettes)
            THEN /\ palettes' = Append(palettes, fresh.colors)
                 /\ mapping' = [mapping EXCEPT ![t] = Len(palettes) + 1]
                 /\ UNCHANGED <<nbErrors, lastDiag>>
                 /\ IF fresh.inBounds
                        THEN UNCHANGED packStatus
                        ELSE packStatus' \in {"aborted", "overrun"}
           ELSE  /\ nbErrors' = error(nbErrors).nbErrors
                 /\ lastDiag' = error(nbErrors).diag
                 /\ UNCHANGED <<palettes, mapping, packStatus>>
    /\ nextTile' = nextTile + 1
    /\ IF packStatus' = "aborted"
        THEN pc' = "exited" /\ exitStatus' = Aborted
        ELSE UNCHANGED <<pc, exitStatus>>
    /\ UNCHANGED <<stage, stageErrors, musl_optind, ch, musl_optarg, options, localOptions,
                   sGiven, palVars, numVars, argVars, inputPath, tileColors, nbPalettes,
                   written, dedupVars>>

\* The end of the pass and of the run: the artifacts are written only if no
\* error was recorded (spec 5), and main()'s final gate (lines 790-793)
\* sets the exit status.
EndOfPass ==
    /\ pc = "stage" /\ stage = "process"
    /\ nextTile > Len(tileColors)
    /\ written' = IF gate(nbErrors).exits THEN "no" ELSE "yes"
    /\ pc' = "exited"
    /\ exitStatus' = IF gate(nbErrors).exits THEN gate(nbErrors).status ELSE 0
    /\ UNCHANGED <<nbErrors, stage, stageErrors, lastDiag, musl_optind, ch, musl_optarg,
                   options, localOptions, sGiven, palVars, numVars, argVars, inputPath,
                   tileColors, nbPalettes, palettes, mapping, nextTile, packStatus,
                   dedupVars>>

\* process() has extracted the tiles of an image; the options are those of
\* a run that passed the gate.
InitPacking ==
    /\ pc = "stage" /\ stage = "process"
    /\ nbErrors = 0 /\ exitStatus = -1 /\ stageErrors = 0 /\ lastDiag = "none"
    /\ musl_optind = 1 /\ ch = "none" /\ musl_optarg = <<>>
    /\ localOptions = DefaultLocalOptions /\ sGiven = FALSE
    /\ \E cap \in 1 .. PalCapacity :
            /\ options = [DefaultOptions EXCEPT !.input = TRUE, !.nbColorsPerPal = cap]
            /\ tileColors \in TileSequences(cap)
    /\ nbPalettes \in 1 .. MaxPalettes
    /\ hasTransparentPixels \in BOOLEAN
    /\ palettes = <<>>
    /\ mapping = [t \in 1 .. Len(tileColors) |-> 0]
    /\ nextTile = 1
    /\ packStatus = "ok"
    /\ written = "pending"
    /\ InitPal
    /\ InitNum
    /\ InitArgs
    /\ InitDedup
    /\ inputPath = <<"z">>

NextPacking == PackTile \/ EndOfPass

SpecPacking == InitPacking /\ [][NextPacking]_vars

(***************************************************************************)
(* The deduper, from spec 4.2: its source (gfx/process.cpp) is not part of *)
(* src/.  A tile is TileSize rows of TileSize one-bit pixels, each row     *)
(* packed into a number with the leftmost pixel in the highest bit (the    *)
(* 8x8 tile of the spec, scaled down).  With deduplication on and          *)
(* mirroring off, identical tiles are merged (spec 8, scenario B).         *)
(***************************************************************************)
\* Tiles of the image.
MaxOccurrences == 3
\* Edge of a tile, in pixels.
TileSize == 2

RowValues == 0 .. (2 ^ TileSize - 1)
TileValues == [1 .. TileSize -> RowValues]
TileStreams == UNION {[1 .. n -> TileValues] : n \in 0 .. MaxOccurrences}

\* The n low bits of v in reverse order.
RECURSIVE reverseBits(_, _)
reverseBits(v, n) ==
    IF n = 0 THEN 0 ELSE (v % 2) * 2 ^ (n - 1) + reverseBits(v \div 2, n - 1)

\* Horizontal mirroring reverses the pixels of every row.
flipHorizontal(bytes) == [r \in 1 .. TileSize |-> reverseBits(bytes[r], TileSize)]

\* Vertical mirroring reverses the order of the rows.
flipVertical(bytes) == [r \in 1 .. TileSize |-> bytes[TileSize + 1 - r]]

\* Mutant of applyTransform: `both` mirrors horizontally only.
applyTransform_halfboth(bytes, transform) ==
    IF transform = "none" THEN bytes
    ELSE IF transform = "horizontal" THEN flipHorizontal(bytes)
    ELSE IF transform = "vertical" THEN flipVertical(bytes)
    ELSE flipHorizontal(bytes)

\* applyTransform(bytes, transform), transform being none, horizontal,
\* vertical or both.
applyTransform(bytes, transform) ==
    IF transform = "none" THEN bytes
    ELSE IF transform = "horizontal" THEN flipHorizontal(bytes)
    ELSE IF transform = "vertical" THEN flipVertical(bytes)
    ELSE flipVertical(flipHorizontal(bytes))

\* The variants that are compared: the identity, and the three flips when
\* mirroring is enabled.
variantsTried(mirroring) ==
    IF mirroring THEN <<"none", "horizontal", "vertical", "both">> ELSE <<"none">>

\* The first transform tried that maps `rep` to `bytes`, 0 when none does.
matchingVariant(rep, bytes, mirroring) ==
    LET tried == variantsTried(mirroring)
        hits  == {k \in 1 .. Len(tried) : applyTransform(rep, tried[k]) = bytes}
    IN  IF hits = {} THEN 0 ELSE CHOOSE k \in hits : \A j \in hits : k <= j

\* The earliest-seen tile before tile i one of whose variants equals tile i,
\* 0 when there is none.
earliestMatch(tiles, i, mirroring) ==
    LET hits == {j \in 1 .. (i - 1) : matchingVariant(tiles[j], tiles[i], mirroring) # 0}
    IN  IF hits = {} THEN 0 ELSE CHOOSE j \in hits : \A k \in hits : j <= k

\* The dedup indices given out so far.
indicesUsed(occ) == {occ[k].index : k \in 1 .. Len(occ)}

\* The entry of tile i: its representative, its dedup index and the flip
\* that maps the representative to it.
dedupe(tiles, occ, i, o) ==
    IF ~o.allowDedup
        THEN [rep |-> i, index |-> i - 1, transform |-> "none"]
    ELSE LET j == earliestMatch(tiles, i, o.allowMirroring) IN
        IF j = 0
            THEN [rep |-> i, index |-> Cardinality(indicesUsed(occ)), transform |-> "none"]
            ELSE [rep |-> j, index |-> occ[j].index,
                  transform |-> variantsTried(o.allowMirroring)[
                                    matchingVariant(tiles[j], tiles[i], o.allowMirroring)]]

\* The deduper takes the next tile in extraction order.
DedupTile ==
    /\ pc = "stage" /\ stage = "process"
    /\ Len(occurrences) < Len(tileBytes)
    /\ occurrences' = Append(occurrences,
                             dedupe(tileBytes, occurrences, Len(occurrences) + 1, options))
    /\ UNCHANGED <<pc, nbErrors, exitStatus, stage, stageErrors, lastDiag, musl_optind, ch,
                   musl_optarg, options, localOptions, sGiven, palVars, numVars, argVars,
                   inputPath, packVars, tileBytes>>

\* process() has extracted the tiles of an image; -u and -m are as the
\* option loop leaves them.
InitDeduper ==
    /\ pc = "stage" /\ stage = "process"
    /\ nbErrors = 0 /\ exitStatus = -1 /\ stageErrors = 0 /\ lastDiag = "none"
    /\ musl_optind = 1 /\ ch = "none" /\ musl_optarg = <<>>
    /\ localOptions = DefaultLocalOptions /\ sGiven = FALSE
    /\ options \in { [DefaultOptions EXCEPT !.input = TRUE, !.nbColorsPerPal = 4],
                     case_u([DefaultOptions EXCEPT !.input = TRUE, !.nbColorsPerPal = 4]),
                     case_m([DefaultOptions EXCEPT !.input = TRUE, !.nbColorsPerPal = 4]) }
    /\ tileBytes \in TileStreams
    /\ occurrences = <<>>
    /\ hasTransparentPixels = FALSE
    /\ InitPal
    /\ InitNum
    /\ InitArgs
    /\ InitPack
    /\ inputPath = <<"z">>

NextDeduper == DedupTile

SpecDeduper == InitDeduper /\ [][NextDeduper]_vars

(***************************************************************************)
(* Properties                                                              *)
(***************************************************************************)
\* Colour c occupies a slot of cs.
Present(cs, c) == \E i \in Slots : cs[i] = c
HasEmpty(cs) == Present(cs, UINT16_MAX)
LowestEmpty(cs) == CHOOSE i \in Slots : cs[i] = UINT16_MAX /\ \A j \in 0 .. (i - 1) : cs[j] # UINT16_MAX
Occupied(cs) == {i \in Slots : cs[i] # UINT16_MAX}
OpaqueHeld(cs) == {c \in OpaqueColors : Present(cs, c)}
SaturatingInc(n) == IF n = NB_ERRORS_MAX THEN n ELSE n + 1
BeforeStage == {"finish", "autoPaths", "palSpec", "gate"}

\* C1: once the option loop is left with an error recorded, no step of
\* main() reaches the dispatch or invokes a stage, and the run can only end
\* with exit status 1.
C1_ErrorsAbortBeforeStage ==
    [][(pc \in BeforeStage /\ nbErrors > 0) =>
            /\ stage' = "none"
            /\ pc' \notin {"dispatch", "stage", "finalGate"}
            /\ (pc' = "exited" => exitStatus' = 1)]_vars

\* C1 witness: a run that recorded an error in the option loop and was
\* ended by giveUp() at the gate (not by an exit of the option loop or of
\* autoOutPath, and not by fatal()).
C1_Witness ==
    /\ pc = "exited" /\ exitStatus = 1 /\ nbErrors > 0 /\ stage = "none"
    /\ lastDiag = "error"
    /\ ch \notin {"V", "?", "1"}
    /\ ~((localOptions.autoAttrmap \/ localOptions.autoPalettes) /\ ~autoImage)

\* C2 (as amended): a stage's call of error() leaves the counter one higher,
\* or unchanged when it is at its maximum, and the stage goes on; a call of
\* fatal() counts the same way and ends the run with exit status 1; no step
\* is taken once the run has exited.
C2_Tiers ==
    [][/\ (pc = "stage" /\ stageErrors' # stageErrors) =>
            (nbErrors' = SaturatingInc(nbErrors) /\ pc' = "stage" /\ exitStatus' = -1)
       /\ (lastDiag' = "FATAL" /\ lastDiag # "FATAL") =>
            (nbErrors' = SaturatingInc(nbErrors) /\ pc' = "exited" /\ exitStatus' = 1)
       /\ pc # "exited"]_vars

\* C2 witness: a stage called error(), went on, then called fatal().
C2_Witness ==
    /\ pc = "exited" /\ exitStatus = 1 /\ lastDiag = "FATAL"
    /\ stage # "none" /\ stageErrors >= 1 /\ nbErrors = stageErrors + 1

\* C2 (as claimed): every call of error() or fatal() adds one to the counter.
C2_Original ==
    [][/\ (pc = "stage" /\ stageErrors' # stageErrors) =>
            (nbErrors' = nbErrors + 1 /\ pc' = "stage" /\ exitStatus' = -1)
       /\ (lastDiag' = "FATAL" /\ lastDiag # "FATAL") =>
            (nbErrors' = nbErrors + 1 /\ pc' = "exited" /\ exitStatus' = 1)
       /\ pc # "exited"]_vars

\* C3: addColor(c) on a palette that holds c or has an empty slot: if c is
\* held the slots stay as they are, otherwise c goes to the lowest empty
\* slot and the other slots stay as they are.
C3_AddColor ==
    [][(Present(colors, lastColor') \/ HasEmpty(colors)) =>
            IF Present(colors, lastColor')
                THEN colors' = colors
                ELSE colors' = [colors EXCEPT ![LowestEmpty(colors)] = lastColor']]_vars

\* C3 witness: the latest call put its colour in slot 2, behind two others.
C3_Witness ==
    /\ palStatus = "ok"
    /\ colors[2] = lastColor /\ colors[0] # UINT16_MAX /\ colors[1] # UINT16_MAX
    /\ colors[3] = UINT16_MAX

\* C4: an addColor call changes no occupied slot, and leaves the index of
\* every colour held by the palette as it was.
C4_OnlyGrow ==
    [][/\ \A i \in Slots : colors[i] # UINT16_MAX => colors'[i] = colors[i]
       /\ \A c \in ColorInputs : Present(colors, c) =>
            Palette_indexOf(colors', hasTransparentPixels, c)
                = Palette_indexOf(colors, hasTransparentPixels, c)]_vars

\* C4 witness: a full palette on which a further, new colour was tried.
C4_Witness ==
    /\ \A i \in Slots : colors[i] # UINT16_MAX
    /\ ~Present(colors, lastColor)

\* C5: while every call was made within the contract, no colour occupies
\* two slots and no empty slot precedes an occupied one.
C5_NoDupPrefix ==
    palStatus = "ok" =>
        /\ \A i, j \in Slots : (colors[i] = colors[j] /\ colors[i] # UINT16_MAX) => i = j
        /\ \A i, j \in Slots : (i < j /\ colors[i] = UINT16_MAX) => colors[j] = UINT16_MAX

\* C5 witness: two colours held, and the latest call named the first again.
C5_Witness ==
    /\ palStatus = "ok"
    /\ colors[0] = lastColor /\ colors[1] # UINT16_MAX /\ colors[2] = UINT16_MAX

\* C6 (as amended): with transparency present, once slot 0 holds the
\* transparent colour no addColor call changes slot 0, and every opaque
\* colour the palette holds is found by indexOf at its own slot, an index
\* of 1 or more.
C6_ReservedSlotKept ==
    /\ [](  (hasTransparentPixels /\ colors[0] = Transparent) =>
                \A c \in OpaqueHeld(colors) :
                    /\ Palette_indexOf(colors, hasTransparentPixels, c) >= 1
                    /\ Palette_indexOf(colors, hasTransparentPixels, c) \in Slots
                    /\ colors[Palette_indexOf(colors, hasTransparentPixels, c)] = c)
    /\ [][(hasTransparentPixels /\ colors[0] = Transparent) => colors'[0] = Transparent]_vars

\* C6 witness: slot 0 holds the transparent colour and the three slots
\* behind it were filled with opaque colours.
C6_Witness ==
    /\ hasTransparentPixels /\ colors[0] = Transparent
    /\ \A i \in 1 .. (PalCapacity - 1) : colors[i] \in OpaqueColors

\* C6 (as claimed): with transparency present, slot 0 never holds an opaque
\* colour and every opaque colour held is found at an index of 1 or more.
C6_Original ==
    hasTransparentPixels =>
        /\ colors[0] \notin OpaqueColors
        /\ \A c \in OpaqueHeld(colors) :
                Palette_indexOf(colors, hasTransparentPixels, c) >= 1

\* C7 (as claimed): indexOf of an opaque colour the palette does not hold is
\* size(); of one it holds, the slot holding it.
C7_IndexOf ==
    \A c \in OpaqueColors :
        IF Present(colors, c)
            THEN /\ Palette_indexOf(colors, hasTransparentPixels, c) \in Slots
                 /\ colors[Palette_indexOf(colors, hasTransparentPixels, c)] = c
            ELSE Palette_indexOf(colors, hasTransparentPixels, c)
                    = Palette_size(colors, hasTransparentPixels)

\* C8 (as amended): size() counts the reserved slot.  With slot 0 reserved
\* and holding the transparent colour and k opaque colours added, size() is
\* k + 1 while the iteration visits k colours; with no reserved slot size()
\* is the number of occupied slots, which is the number of colours visited.
C8_SizeCountsReserved ==
    /\ (hasTransparentPixels /\ colors[0] = Transparent) =>
            /\ Palette_size(colors, hasTransparentPixels) = Cardinality(OpaqueHeld(colors)) + 1
            /\ Len(Palette_iterate(colors, hasTransparentPixels)) = Cardinality(OpaqueHeld(colors))
    /\ ~hasTransparentPixels =>
            /\ Palette_size(colors, hasTransparentPixels) = Cardinality(Occupied(colors))
            /\ Len(Palette_iterate(colors, hasTransparentPixels)) = Cardinality(Occupied(colors))

\* C8 witness: a reserved slot and two opaque colours behind it.
C8_Witness ==
    /\ hasTransparentPixels /\ colors[0] = Transparent
    /\ Cardinality(OpaqueHeld(colors)) = 2
    /\ Palette_size(colors, hasTransparentPixels) = 3

\* C8 (as claimed): with a reserved slot and k opaque colours added, size()
\* is k, the number of colours the iteration visits.
C8_Original ==
    (hasTransparentPixels /\ colors[0] = Transparent) =>
        /\ Palette_size(colors, hasTransparentPixels) = Cardinality(OpaqueHeld(colors))
        /\ Palette_size(colors, hasTransparentPixels)
                = Len(Palette_iterate(colors, hasTransparentPixels))

\* C9: when a stage has been invoked the depth is 1 or 2 and the palette
\* size is between 1 and 2^depth, and is 2^depth when -s was not given.
C9_ConfigAtStage ==
    stage # "none" =>
        /\ options.bitDepth \in {1, 2}
        /\ 1 <= options.nbColorsPerPal
        /\ options.nbColorsPerPal <= 2 ^ options.bitDepth
        /\ 2 ^ options.bitDepth <= 4
        /\ (~sGiven => options.nbColorsPerPal = 2 ^ options.bitDepth)

\* C9 witness: a stage runs after both -d and -s were given and took effect.
C9_Witness ==
    /\ stage = "process" /\ sGiven
    /\ options.bitDepth = 1 /\ options.nbColorsPerPal = 1

\* The exact value of a string of decimal digits.
RECURSIVE DecimalValue(_)
DecimalValue(s) ==
    IF s = <<>> THEN 0 ELSE 10 * DecimalValue(SubSeq(s, 1, Len(s) - 1)) + (Ord(s[Len(s)]) - 48)

IsDecimal(s) == s # <<>> /\ \A i \in 1 .. Len(s) : Ord(s[i]) \in 48 .. 57

\* Some bank's number in "n" or "n,m", written in plain decimal, exceeds max.
NamesAbove(arg, max) ==
    \E i \in 1 .. Len(arg), j \in 1 .. Len(arg) :
        /\ i <= j
        /\ IsDecimal(SubSeq(arg, i, j))
        /\ (i = 1 \/ ~IsDecimal(<<arg[i - 1]>>))
        /\ (j = Len(arg) \/ ~IsDecimal(<<arg[j + 1]>>))
        /\ DecimalValue(SubSeq(arg, i, j)) > max

\* A -b or -N step whose argument names an out-of-range number records an error.
RangeErrorRecorded ==
    /\ (ch' = "b" /\ musl_optind' # musl_optind /\ NamesAbove(musl_optarg', 255)) =>
            (nbErrors' > nbErrors \/ nbErrors = NB_ERRORS_MAX)
    /\ (ch' = "N" /\ musl_optind' # musl_optind /\ NamesAbove(musl_optarg', 256)) =>
            (nbErrors' > nbErrors \/ nbErrors = NB_ERRORS_MAX)

\* C10 (as claimed): a -b naming a base tile ID of 256 or more, and a -N
\* naming a capacity above 256, records an error; and when a stage runs
\* after a final -b with one plain number, the stored bank 0 ID is that number.
C10_RangeErrors ==
    /\ [][RangeErrorRecorded]_vars
    /\ []((stage # "none" /\ ch = "b" /\ IsDecimal(musl_optarg)) =>
                options.baseTileIDs[1] = DecimalValue(musl_optarg))

\* A step of the option loop sets the flags as its option says and clears none.
FlagsOnlySet ==
    /\ (options.allowMirroring => options'.allowMirroring)
    /\ (options.allowDedup => options'.allowDedup)
    /\ (ch' = "m" /\ musl_optind' # musl_optind) =>
            (options'.allowMirroring /\ options'.allowDedup)
    /\ (ch' = "u" /\ musl_optind' # musl_optind) =>
            (options'.allowDedup /\ options'.allowMirroring = options.allowMirroring)
    /\ (ch' \notin {"m", "u"}) =>
            (options'.allowMirroring = options.allowMirroring
                /\ options'.allowDedup = options.allowDedup)

\* C14: in every state of a run allowMirroring implies allowDedup; -m sets
\* both flags, -u sets allowDedup and leaves allowMirroring alone, and no
\* step clears either flag.
C14_MirrorImpliesDedup ==
    /\ [](options.allowMirroring => options.allowDedup)
    /\ [][FlagsOnlySet]_vars

\* C14 witness: a stage runs after -m was the only one of -m and -u given.
C14_Witness ==
    /\ pc = "stage" /\ musl_optind = 3
    /\ ch = "m" /\ options.allowMirroring /\ options.allowDedup

\* The outcome the claim names for a configuration, written from its words.
ClaimedStage(o) ==
    IF o.input /\ o.reversedWidth # 0 THEN "reverse"
    ELSE IF o.input /\ o.reversedWidth = 0 THEN "process"
    ELSE IF ~o.input /\ o.palettes /\ o.palSpecType = "EXPLICIT" /\ o.reversedWidth = 0
        THEN "processPalettes"
    ELSE "none"

\* The dispatch step invokes the claimed stage, or exits with status 1; no
\* other step invokes a stage, and none is invoked after another.
DispatchesOnce ==
    /\ pc = "dispatch" =>
            /\ nbErrors = 0 /\ stage = "none"
            /\ stage' = ClaimedStage(options)
            /\ (stage' = "none" => (pc' = "exited" /\ exitStatus' = 1))
            /\ (stage' # "none" => (pc' = "stage" /\ exitStatus' = -1))
    /\ pc # "dispatch" => stage' = stage

\* C15 (as amended): in a run that reaches the dispatch of main() (no error
\* recorded, and no exit from the option loop or from autoOutPath), reverse()
\* is invoked iff an input is given and the stride is nonzero, process() iff
\* an input is given and the stride is zero, processPalettes() iff no input
\* is given, a palettes path is set, the spec is EXPLICIT and the stride is
\* zero; otherwise no stage is invoked and the run exits with status 1.
\* Never are two stages invoked in one run.
C15_DispatchOnce == [][DispatchesOnce]_vars

\* C15 witness: processPalettes() was invoked and has returned.
C15_Witness ==
    /\ pc = "finalGate" /\ stage = "processPalettes"
    /\ ~options.input /\ options.palettes /\ options.reversedWidth = 0

\* C15 (as claimed): every run that recorded no error while parsing its
\* options ends with the stage the configuration names invoked, or with no
\* stage and exit status 1.
C15_Original ==
    (pc = "exited" /\ (stage = "none" => nbErrors = 0)) =>
        /\ stage = ClaimedStage(options)
        /\ (stage = "none" => exitStatus = 1)

\* The counter moves up by at most one and never at its maximum.
CounterSaturates ==
    /\ nbErrors' >= nbErrors
    /\ nbErrors' <= NB_ERRORS_MAX
    /\ (nbErrors # 0 => nbErrors' # 0)

\* A diagnostic of error() or fatal() was printed during the run.
DiagnosticPrinted == lastDiag \in {"error", "FATAL"}

\* C16 (as amended): a run that ends by main() returning has exit status 0
\* only if neither error() nor fatal() was called (the exit(0) of -V is
\* taken whatever was recorded before it); the counter never decreases,
\* stops at its maximum, and once nonzero stays nonzero.
C16_ZeroOnlyIfClean ==
    /\ []((pc = "exited" /\ exitStatus = 0 /\ ch # "V") =>
                (~DiagnosticPrinted /\ nbErrors = 0))
    /\ []((DiagnosticPrinted /\ pc \in BeforeStage \cup {"stage", "finalGate"}) => nbErrors # 0)
    /\ [][CounterSaturates]_vars

\* C16 witness: a stage ran without a diagnostic and main() returned 0.
C16_Witness ==
    /\ pc = "exited" /\ exitStatus = 0 /\ stage = "process" /\ ch # "V"
    /\ nbErrors = 0

\* C16 (as claimed): whatever the run, exit status 0 means that neither
\* error() nor fatal() was called.
C16_Original ==
    (pc = "exited" /\ exitStatus = 0) => (~DiagnosticPrinted /\ nbErrors = 0)

\* The value of a digit character, 0-9 and a-f in either case.
DigitValue(c) ==
    IF Ord(c) \in 48 .. 57 THEN Ord(c) - 48
    ELSE IF Ord(c) \in 97 .. 102 THEN Ord(c) - 87
    ELSE Ord(c) - 55

\* The exact value of a string of digits in a base, in unbounded integers.
RECURSIVE ExactValue(_, _)
ExactValue(ds, b) ==
    IF ds = <<>> THEN 0
    ELSE b * ExactValue(SubSeq(ds, 1, Len(ds) - 1), b) + DigitValue(ds[Len(ds)])

\* The base prefix of a string as the claim words it (either case of x, b).
ClaimedPrefix(s) ==
    IF s # <<>> /\ s[1] = "$" THEN [base |-> 16, len |-> 1]
    ELSE IF s # <<>> /\ s[1] = "%" THEN [base |-> 2, len |-> 1]
    ELSE IF Len(s) >= 2 /\ s[1] = "0" /\ s[2] \in {"x", "X"} THEN [base |-> 16, len |-> 2]
    ELSE IF Len(s) >= 2 /\ s[1] = "0" /\ s[2] \in {"b", "B"} THEN [base |-> 2, len |-> 2]
    ELSE [base |-> 10, len |-> 0]

\* The digits the call has consumed: from the end of the prefix to `string`.
ConsumedDigits ==
    SubSeq(pnInput, ClaimedPrefix(pnInput).len + 1, Len(pnInput) - Len(pnString))

\* C17: the multiply-and-add of parseNumber never exceeds 16 bits, and the
\* call returns either errVal with one error recorded, or, with no error,
\* the exact value in the prefix's base of the digits it consumed (at least
\* one); the statement-by-statement call and the operator parseNumber agree.
C17_NeverWraps ==
    /\ pnWide < 65536
    /\ pnPc = "returned" =>
        /\ \/ (pnRet = pnErrVal /\ nbErrors = 1 /\ lastDiag = "error")
           \/ /\ nbErrors = 0
              /\ pnBase = ClaimedPrefix(pnInput).base
              /\ ConsumedDigits # <<>>
              /\ pnRet = ExactValue(ConsumedDigits, pnBase)
              /\ pnRet < 65536
        /\ parseNumber(pnInput, pnErrVal)
                = [number |-> pnRet, string |-> pnString, nbErr |-> nbErrors]

\* C17 witness: of a decimal number too large for 16 bits the call consumed
\* the digits 6553, where the too-large check fired with digits left over,
\* and returned errVal with an error.
C17_Witness ==
    /\ pnPc = "returned" /\ pnRet = pnErrVal /\ nbErrors = 1
    /\ pnBase = 10 /\ pnWide = 6553 /\ pnString # <<>>
    /\ ExactValue(pnInput, 10) >= 65536

\* The real arguments of a vector: its elements short of the terminator.
RealCount(v) == Len(v) - 1

\* The vector that encloses the top entry of the at-file stack.
Enclosing(stack) == IF Len(stack) = 1 THEN argv ELSE stack[Len(stack) - 1].argv

\* A pop resumes in the enclosing vector right after the at-file reference.
PopResumes ==
    Len(atFileStack') < Len(atFileStack) =>
        /\ curArgv' = Enclosing(atFileStack)
        /\ At(curArgv', musl_optind' - 1) = <<"@">> \o atFileStack[Len(atFileStack)].argv[1]

\* getopt is at a `--` of the vector being scanned, an argument follows it
\* and no input is stored yet.
AtDashDash ==
    /\ pc = "parse"
    /\ musl_optind < RealCount(curArgv) - 1
    /\ At(curArgv, musl_optind) = DashDash
    /\ ~options.input

\* The argument that follows the `--` becomes the input.
LeftoversFromCurrent == AtDashDash => inputPath' = At(curArgv, musl_optind + 1)

\* C18 (as claimed): while arguments are scanned, the argument count in use
\* is the number of real arguments of the vector being scanned (terminator
\* excluded), also after a pop into a vector that is itself an at-file; a
\* pop resumes in the enclosing vector at the argument right after the
\* at-file reference; and the argument after a `--` is registered as input
\* from the vector being scanned.
C18_AtFileStack ==
    /\ [](pc = "parse" => curArgc = RealCount(curArgv))
    /\ [][PopResumes]_vars
    /\ [][LeftoversFromCurrent]_vars

\* The colours held by the slots of palette k.
HeldBy(k) == {palettes[k][i] : i \in Slots} \ {UINT16_MAX}

\* C11 (as claimed): at every point of the greedy pass, and at its end,
\* every tile that was assigned a palette has all colours of its ColorSet
\* among the occupied slots of that palette.
C11_Containment ==
    \A t \in 1 .. Len(mapping) :
        mapping[t] # 0 => tileColors[t] \subseteq HeldBy(mapping[t])

\* The tile taken at position k of the pass (descending ColorSet size, ties
\* by extraction order).
TileAt(k) ==
    CHOOSE t \in 1 .. Len(tileColors) :
        Cardinality({u \in 1 .. Len(tileColors) :
            \/ Cardinality(tileColors[u]) > Cardinality(tileColors[t])
            \/ Cardinality(tileColors[u]) = Cardinality(tileColors[t]) /\ u < t}) = k - 1

\* No open palette can take the colours of tile t within the capacity.
FitsNoPalette(t) ==
    \A k \in 1 .. Len(palettes) :
        Cardinality(HeldBy(k) \cup tileColors[t]) > options.nbColorsPerPal

\* A tile that fits no open palette when the budget is exhausted: the error
\* is recorded, no palette is opened or changed, the tile stays without a
\* palette, and the pass goes on to the next tile.
ExhaustedStep ==
    (/\ pc = "stage" /\ nextTile <= Len(tileColors) /\ nextTile' # nextTile
     /\ FitsNoPalette(TileAt(nextTile))
     /\ Len(palettes) >= nbPalettes) =>
        /\ lastDiag' = "error"
        /\ nbErrors' = SaturatingInc(nbErrors) /\ nbErrors' > 0
        /\ palettes' = palettes
        /\ mapping' = mapping
        /\ mapping[TileAt(nextTile)] = 0
        /\ nextTile' = nextTile + 1
        /\ pc' = "stage"

\* A tile the pass has taken was left without a palette.
SomeTileRefused == \E k \in 1 .. (nextTile - 1) : mapping[TileAt(k)] = 0

\* C12: the open palettes never outnumber the budget; a tile that fits no
\* open palette when the budget is exhausted has PalettesExhausted recorded,
\* gets no palette, and the pass goes on with the remaining tiles; and a run
\* in which a tile was refused ends without writing any artifact.
C12_Budget ==
    /\ [](Len(palettes) <= nbPalettes)
    /\ [][ExhaustedStep]_vars
    /\ [](SomeTileRefused => (nbErrors > 0 /\ written # "yes"))
    /\ [](written = "yes" => (nbErrors = 0 /\ exitStatus = 0))

\* C12 witness: a tile was refused, a later tile of the pass was still
\* assigned a palette, and the run ended with no artifact written.
C12_Witness ==
    /\ pc = "exited" /\ written = "no" /\ exitStatus = 1
    /\ Len(palettes) = nbPalettes
    /\ \E k1, k2 \in 1 .. Len(tileColors) :
            k1 < k2 /\ mapping[TileAt(k1)] = 0 /\ mapping[TileAt(k2)] # 0

\* Pixel x of row r of a tile (both from 1, x from the left).
PixelOf(bytes, r, x) == (bytes[r] \div 2 ^ (TileSize - x)) % 2

\* Where pixel (r, x) of a mirrored tile comes from in the original.
SourceRow(transform, r) ==
    IF transform \in {"vertical", "both"} THEN TileSize + 1 - r ELSE r
SourceColumn(transform, x) ==
    IF transform \in {"horizontal", "both"} THEN TileSize + 1 - x ELSE x

\* `bytes` is `rep` mirrored by `transform`, pixel by pixel.
IsMirrorOf(bytes, rep, transform) ==
    \A r \in 1 .. TileSize, x \in 1 .. TileSize :
        PixelOf(bytes, r, x) = PixelOf(rep, SourceRow(transform, r), SourceColumn(transform, x))

AllTransforms == {"none", "horizontal", "vertical", "both"}

\* Tiles i and j are equal up to one of the four transforms.
MirrorEquivalent(i, j) ==
    \E transform \in AllTransforms : IsMirrorOf(tileBytes[i], tileBytes[j], transform)

\* C13: with mirroring enabled, each occurrence is merged into the earliest
\* tile one of whose four variants equals it, the dedup indices follow the
\* order in which the representatives are first seen, and the recorded
\* transform applied to the representative's bytes gives the occurrence's
\* bytes exactly.
C13_MirrorRoundTrip ==
    options.allowMirroring =>
        \A i \in 1 .. Len(occurrences) :
            LET o == occurrences[i] IN
            /\ o.transform \in AllTransforms
            /\ o.rep <= i
            /\ MirrorEquivalent(i, o.rep)
            /\ \A j \in 1 .. (o.rep - 1) : ~MirrorEquivalent(i, j)
            /\ occurrences[o.rep].rep = o.rep
            /\ o.index = occurrences[o.rep].index
            /\ o.index = Cardinality({j \in 1 .. (o.rep - 1) : occurrences[j].rep = j})
            /\ IsMirrorOf(tileBytes[i], tileBytes[o.rep], o.transform)
            /\ applyTransform(tileBytes[o.rep], o.transform) = tileBytes[i]

\* C13 witness: three tiles share a representative, one through a vertical
\* flip and one through both flips.
C13_Witness ==
    /\ options.allowMirroring
    /\ Len(occurrences) = 3
    /\ occurrences[2].rep = 1 /\ occurrences[2].transform = "vertical"
    /\ occurrences[3].rep = 1 /\ occurrences[3].transform = "both"
    /\ tileBytes[3] # tileBytes[1] /\ tileBytes[3] # tileBytes[2]

====
